---- MODULE Spec2Model ----
(***************************************************************************)
(* A model of scripts/generate_feiertage.py: the generator of the          *)
(* Feiertage and Ferien calendar files of the 16 German Bundeslaender.     *)
(*                                                                         *)
(* Text is modelled as Python models it: a str is a sequence of Unicode    *)
(* code points, a bytes object a sequence of octets 0..255; str.encode and *)
(* bytes.decode(errors="ignore") are computed octet by octet.              *)
(***************************************************************************)
EXTENDS Integers, Sequences, FiniteSets, TLC

VARIABLES
    pc,          \* where the running function stands
    line,        \* ics_fold: its argument
    folded,      \* ics_fold: its return value
    ev_args,     \* vevent: the summary and the start date of the event rendered
    renders,     \* vevent: the calls made so far, each with its return value
    world,       \* the data the two upstream services hold
    broken,      \* the (service, state) of the upstream request that failed
    from_date,   \* fetch_ferien_api: its arguments
    to_date,
    current,     \* fetch_ferien_api: the start of the next window
    results,     \* fetch_ferien_api: the records fetched so far
    unique,      \* fetch_ferien_api: its return value
    requests,    \* the requests the running function has sent upstream
    fetched,     \* the responses to them, in order
    year_start,  \* main: args.year_start, args.year_end
    year_end,
    timestamp,   \* main: the timestamp of the run
    idx,         \* main: the place in STATES of the state in work
    source,      \* the requests sent and the responses received for the
                 \* document last written
    calls,       \* the calls of vevent made for it
    out_path,    \* the path of the document last written
    content,     \* the text of the document last written
    files        \* the paths of the documents written

foldVars == <<line, folded>>
eventVars == <<ev_args, renders>>
fetchVars == <<from_date, to_date, current, results, unique, requests, fetched>>
argVars == <<year_start, year_end, timestamp>>
docVars == <<source, calls, out_path, content, files>>
mainVars == <<year_start, year_end, timestamp, idx, source, calls, out_path, content,
              files>>
vars == <<pc, line, folded, ev_args, renders, world, broken, from_date, to_date,
          current, results, unique, requests, fetched, year_start, year_end,
          timestamp, idx, source, calls, out_path, content, files>>

\* The date variables of a function that has not been called
NoDate == [year |-> 0, month |-> 0, day |-> 0]
NoFailure == <<"none", 0>>
NoSource == [requests |-> <<>>, fetched |-> <<>>]

\* The values of the variables of a function that is not running.
FoldIdle == line = <<>> /\ folded = <<>>
EventIdle == ev_args = <<>> /\ renders = <<>>
FetchIdle ==
    /\ from_date = NoDate /\ to_date = NoDate /\ current = NoDate
    /\ results = <<>> /\ unique = <<>> /\ requests = <<>> /\ fetched = <<>>
MainIdle ==
    /\ year_start = 0 /\ year_end = 0 /\ timestamp = <<>> /\ idx = 0
    /\ source = NoSource
    /\ calls = <<>> /\ out_path = <<>> /\ content = <<>> /\ files = {}
WorldIdle == world = <<>> /\ broken = NoFailure

----------------------------------------------------------------------------
(* Text *)

Min(a, b) == IF a <= b THEN a ELSE b

\* The printable ASCII characters: code points 32..95, and 97..126.
AsciiUpper ==
    " !\"#$%&'()*+,-./0123456789:;<=>?@ABCDEFGHIJKLMNOPQRSTUVWXYZ[\\]^_"

AsciiLower == "abcdefghijklmnopqrstuvwxyz{|}~"

\* The code point of a one-character ASCII string.
Ord(c) ==
    IF \E i \in 1..Len(AsciiUpper) : SubSeq(AsciiUpper, i, i) = c
    THEN 31 + CHOOSE i \in 1..Len(AsciiUpper) : SubSeq(AsciiUpper, i, i) = c
    ELSE 96 + CHOOSE i \in 1..Len(AsciiLower) : SubSeq(AsciiLower, i, i) = c

\* A str literal of the source, as its sequence of code points.
Str(s) == [i \in 1..Len(s) |-> Ord(SubSeq(s, i, i))]

CR == 13
LF == 10
SP == 32
CRLF == <<CR, LF>>

\* The concatenation pieces[lo] \o ... \o pieces[hi], by halving the range.
RECURSIVE ConcatRange(_, _, _)
ConcatRange(pieces, lo, hi) ==
    IF lo > hi THEN <<>>
    ELSE IF lo = hi THEN pieces[lo]
    ELSE LET mid == (lo + hi) \div 2
         IN  ConcatRange(pieces, lo, mid) \o ConcatRange(pieces, mid + 1, hi)

\* "".join(parts)
Concat(parts) == ConcatRange(parts, 1, Len(parts))

\* sep.join(parts)
Join(parts, sep) ==
    Concat([i \in 1..Len(parts) |-> IF i = 1 THEN parts[i] ELSE sep \o parts[i]])

\* str.encode("utf-8") of one code point
EncodeChar(cp) ==
    IF cp < 128 THEN <<cp>>
    ELSE IF cp < 2048 THEN <<192 + (cp \div 64), 128 + (cp % 64)>>
    ELSE IF cp < 65536 THEN
        <<224 + (cp \div 4096), 128 + ((cp \div 64) % 64), 128 + (cp % 64)>>
    ELSE
        <<240 + (cp \div 262144), 128 + ((cp \div 4096) % 64),
          128 + ((cp \div 64) % 64), 128 + (cp % 64)>>

\* str.encode("utf-8")
Encode(text) == Concat([i \in 1..Len(text) |-> EncodeChar(text[i])])

IsContinuation(b) == b >= 128 /\ b <= 191

\* The number of continuation octets a lead octet announces; 0 for an octet
\* that cannot start a sequence (a continuation octet, 0xC0, 0xC1, 0xF5..).
Need(b) ==
    IF b >= 194 /\ b <= 223 THEN 1
    ELSE IF b >= 224 /\ b <= 239 THEN 2
    ELSE IF b >= 240 /\ b <= 244 THEN 3
    ELSE 0

\* The code point of the complete sequence starting at octet i.
CodePointAt(bytes, i) ==
    LET n == Need(bytes[i]) IN
    IF n = 1 THEN (bytes[i] - 192) * 64 + (bytes[i + 1] - 128)
    ELSE IF n = 2 THEN
        (bytes[i] - 224) * 4096 + (bytes[i + 1] - 128) * 64 + (bytes[i + 2] - 128)
    ELSE
        (bytes[i] - 240) * 262144 + (bytes[i + 1] - 128) * 4096
            + (bytes[i + 2] - 128) * 64 + (bytes[i + 3] - 128)

\* Whether a complete, well-formed multi-byte sequence starts at octet i.
CompleteAt(bytes, i) ==
    LET n == Need(bytes[i]) IN
    /\ n > 0
    /\ i + n <= Len(bytes)
    /\ \A k \in 1..n : IsContinuation(bytes[i + k])

\* What the decoder makes of octet i. An ASCII octet is its own character, a
\* lead octet with all its continuation octets after it is their character.
\* Any other octet (a lead octet cut off from its continuation octets, a
\* continuation octet without its lead octet) is undecodable and ignored;
\* the continuation octets of a decoded sequence are consumed with it.
DecodedAt(bytes, i) ==
    IF bytes[i] < 128 THEN <<bytes[i]>>
    ELSE IF CompleteAt(bytes, i) THEN <<CodePointAt(bytes, i)>>
    ELSE <<>>

\* Whether octet i is a continuation octet of a complete sequence before it.
Consumed(bytes, i) ==
    /\ IsContinuation(bytes[i])
    /\ \E k \in 1..3 : i - k >= 1 /\ Need(bytes[i - k]) >= k /\ CompleteAt(bytes, i - k)

\* errors="replace" in place of errors="ignore": U+FFFD for what is
\* undecodable.
DecodeReplace(bytes) ==
    Concat([i \in 1..Len(bytes) |->
        IF bytes[i] >= 128 /\ ~CompleteAt(bytes, i) /\ ~Consumed(bytes, i)
        THEN <<65533>> ELSE DecodedAt(bytes, i)])

\* bytes.decode("utf-8", errors="ignore")
DecodeIgnore(bytes) == Concat([i \in 1..Len(bytes) |-> DecodedAt(bytes, i)])

\* The places in text where sep starts, in ascending order.
Occurrences(text, sep) ==
    SelectSeq([i \in 1..Len(text) |-> i],
        LAMBDA i : /\ text[i] = sep[1]
                   /\ i + Len(sep) - 1 <= Len(text)
                   /\ SubSeq(text, i, i + Len(sep) - 1) = sep)

\* text.split(sep), for a separator no two occurrences of which overlap
\* (CRLF, and CRLF with a space): the pieces of text between them.
Split(text, sep) ==
    LET at == Occurrences(text, sep)
    IN  [k \in 1..(Len(at) + 1) |->
            SubSeq(text,
                   IF k = 1 THEN 1 ELSE at[k - 1] + Len(sep),
                   IF k = Len(at) + 1 THEN Len(text) ELSE at[k] - 1)]

\* The characters occurring in text.
Chars(text) == { text[i] : i \in 1..Len(text) }

\* len(text.encode("utf-8"))
ByteLen(text) == Len(Encode(text))

----------------------------------------------------------------------------
(* ics_fold *)

FOLD_THRESHOLD == 75
FIRST_LIMIT == 75
CONTINUATION_LIMIT == 74

FoldSeparator == <<CR, LF, SP>>

\* The loop with the limit left at 75 for the continuation chunks.
RECURSIVE FoldChunksSameLimit(_, _, _)
FoldChunksSameLimit(encoded, pos, limit) ==
    IF pos >= Len(encoded) THEN <<>>
    ELSE <<DecodeIgnore(SubSeq(encoded, pos + 1, Min(pos + limit, Len(encoded))))>>
            \o FoldChunksSameLimit(encoded, pos + limit, limit)

\* The while loop of ics_fold: the chunks from octet offset pos on.
RECURSIVE FoldChunks(_, _, _)
FoldChunks(encoded, pos, limit) ==
    IF pos >= Len(encoded) THEN <<>>
    ELSE <<DecodeIgnore(SubSeq(encoded, pos + 1, Min(pos + limit, Len(encoded))))>>
            \o FoldChunks(encoded, pos + limit, CONTINUATION_LIMIT)

ics_fold(text) ==
    LET encoded == Encode(text) IN
    IF Len(encoded) <= FOLD_THRESHOLD THEN text
    ELSE Join(FoldChunks(encoded, 0, FIRST_LIMIT), FoldSeparator)

----------------------------------------------------------------------------
(* datetime.date *)

\* A date is a record [year, month, day], as datetime.date holds it.
Date(y, m, d) == [year |-> y, month |-> m, day |-> d]

IsLeap(y) == y % 4 = 0 /\ (y % 100 # 0 \/ y % 400 = 0)

DaysInMonth(y, m) ==
    IF m = 2 THEN (IF IsLeap(y) THEN 29 ELSE 28)
    ELSE IF m \in {4, 6, 9, 11} THEN 30
    ELSE 31

\* The number of days before 1 January of year y, day 1 being 1 January 1.
DaysBeforeYear(y) ==
    (y - 1) * 365 + ((y - 1) \div 4) - ((y - 1) \div 100) + ((y - 1) \div 400)

\* The number of days of year y before the first day of month m.
RECURSIVE DaysBeforeMonth(_, _)
DaysBeforeMonth(y, m) ==
    IF m = 1 THEN 0 ELSE DaysBeforeMonth(y, m - 1) + DaysInMonth(y, m - 1)

IsValidDate(y, m, d) ==
    /\ y >= 1 /\ y <= 9999
    /\ m >= 1 /\ m <= 12
    /\ d >= 1 /\ d <= DaysInMonth(y, m)

\* date.toordinal()
ToOrdinal(date) ==
    DaysBeforeYear(date.year) + DaysBeforeMonth(date.year, date.month) + date.day

\* date.fromordinal(n): the date whose ordinal is n. Its year lies between
\* n / 366 and n / 365 + 1, and of the days counted from the first of each
\* month of those years, one alone is a day of its month.
FromOrdinal(n) ==
    CHOOSE date \in { Date(y, m, n - DaysBeforeYear(y) - DaysBeforeMonth(y, m)) :
                        y \in (n \div 366)..(n \div 365 + 1), m \in 1..12 } :
        IsValidDate(date.year, date.month, date.day)

\* date + timedelta(days=n)
AddDays(date, n) == FromOrdinal(ToOrdinal(date) + n)

\* date1 < date2, date1 <= date2
DateLess(d1, d2) == ToOrdinal(d1) < ToOrdinal(d2)
DateLeq(d1, d2) == ToOrdinal(d1) <= ToOrdinal(d2)

\* The decimal digits of n, padded with zeros to the given width.
Digits(n, width) ==
    [i \in 1..width |-> 48 + ((n \div (10 ^ (width - i))) % 10)]

IsDigit(c) == c >= 48 /\ c <= 57

\* int(text), for a text of digits
Number(text) ==
    IF Len(text) = 2 THEN (text[1] - 48) * 10 + (text[2] - 48)
    ELSE (text[1] - 48) * 1000 + (text[2] - 48) * 100 + (text[3] - 48) * 10
            + (text[4] - 48)

HYPHEN == 45

\* date.strftime("%Y%m%d")
StrftimeBasic(date) ==
    Digits(date.year, 4) \o Digits(date.month, 2) \o Digits(date.day, 2)

\* date.strftime("%Y-%m-%d")
StrftimeIso(date) ==
    Digits(date.year, 4) \o <<HYPHEN>> \o Digits(date.month, 2) \o <<HYPHEN>>
        \o Digits(date.day, 2)

\* Whether date.fromisoformat(text) returns a date: text is YYYY-MM-DD and
\* names a day that exists. On any other text it raises ValueError.
IsIsoDate(text) ==
    /\ Len(text) = 10
    /\ text[5] = HYPHEN /\ text[8] = HYPHEN
    /\ \A i \in {1, 2, 3, 4, 6, 7, 9, 10} : IsDigit(text[i])
    /\ IsValidDate(Number(SubSeq(text, 1, 4)), Number(SubSeq(text, 6, 7)),
                   Number(SubSeq(text, 9, 10)))

\* date.fromisoformat(text)
FromIso(text) ==
    Date(Number(SubSeq(text, 1, 4)), Number(SubSeq(text, 6, 7)),
         Number(SubSeq(text, 9, 10)))

----------------------------------------------------------------------------
(* make_uid and vevent *)

PRODID == Str("ics.tools skjerns patch")
URL == Str("https://ics.tools")

HexDigits == Str("0123456789abcdef")

\* The sum of weights[lo..hi] modulo 2^20, by halving the range.
RECURSIVE SumRange(_, _, _)
SumRange(weights, lo, hi) ==
    IF lo > hi THEN 0
    ELSE IF lo = hi THEN weights[lo] % 1048576
    ELSE LET mid == (lo + hi) \div 2
         IN  (SumRange(weights, lo, mid) + SumRange(weights, mid + 1, hi)) % 1048576

\* hashlib.sha256(bytes).hexdigest(): 64 hexadecimal digits that depend on
\* the octets and on nothing else. SHA-256 itself is not computed: a
\* position-weighted checksum of the octets stands for it, and nothing below
\* relies on more than its being a function of the octets that tells apart
\* the inputs used here.
Sha256HexDigest(bytes) ==
    LET h == SumRange([i \in 1..Len(bytes) |->
                          (bytes[i] + 1) * ((i * i * 31 + i * 7 + 1) % 1021)],
                      1, Len(bytes))
    IN  [k \in 1..64 |->
            HexDigits[1 + (((h + k * k * Len(bytes)) \div (16 ^ ((k - 1) % 5))) % 16)]]

\* The string literals of vevent
BEGIN_VEVENT == Str("BEGIN:VEVENT")
DTSTART_ == Str("DTSTART;VALUE=DATE:")
DTEND_ == Str("DTEND;VALUE=DATE:")
SUMMARY_ == Str("SUMMARY:")
UID_ == Str("UID:")
URL_ == Str("URL:")
CREATED_ == Str("CREATED:")
LAST_MODIFIED_ == Str("LAST-MODIFIED:")
DTSTAMP_ == Str("DTSTAMP:")
TRANSP_TRANSPARENT == Str("TRANSP:TRANSPARENT")
END_VEVENT == Str("END:VEVENT")

make_uid(uid_summary, uid_dtstart) ==
    LET raw == uid_summary \o StrftimeBasic(uid_dtstart)
    IN  SubSeq(Sha256HexDigest(Encode(raw)), 1, 8)

\* vevent with the stable id taken from the end date instead of the start.
veventUidFromEnd(v_summary, v_dtstart, v_dtend, v_timestamp) ==
    LET uid == make_uid(v_summary, v_dtend)
        lines == <<
            BEGIN_VEVENT,
            DTSTART_ \o StrftimeBasic(v_dtstart),
            DTEND_ \o StrftimeBasic(v_dtend),
            SUMMARY_ \o v_summary,
            ics_fold(UID_ \o uid),
            URL_ \o URL,
            CREATED_ \o v_timestamp,
            LAST_MODIFIED_ \o v_timestamp,
            DTSTAMP_ \o v_timestamp,
            TRANSP_TRANSPARENT,
            END_VEVENT >>
    IN  Join(lines, CRLF)

vevent(v_summary, v_dtstart, v_dtend, v_timestamp) ==
    LET uid == make_uid(v_summary, v_dtstart)
        lines == <<
            BEGIN_VEVENT,
            DTSTART_ \o StrftimeBasic(v_dtstart),
            DTEND_ \o StrftimeBasic(v_dtend),
            SUMMARY_ \o v_summary,
            ics_fold(UID_ \o uid),
            URL_ \o URL,
            CREATED_ \o v_timestamp,
            LAST_MODIFIED_ \o v_timestamp,
            DTSTAMP_ \o v_timestamp,
            TRANSP_TRANSPARENT,
            END_VEVENT >>
    IN  Join(lines, CRLF)

----------------------------------------------------------------------------
(* The module's constants *)

MAX_BATCH_DAYS == 1000

U_UMLAUT == 252

\* The 16 states in the order of FEIERTAGE_CODES, each with its
\* feiertage-api.de land code and its openholidaysapi.org subdivision code.
StateTable == <<
    <<Str("baden-w") \o <<U_UMLAUT>> \o Str("rttemberg"), Str("BW"), Str("DE-BW")>>,
    <<Str("bayern"), Str("BY"), Str("DE-BY")>>,
    <<Str("berlin"), Str("BE"), Str("DE-BE")>>,
    <<Str("brandenburg"), Str("BB"), Str("DE-BB")>>,
    <<Str("bremen"), Str("HB"), Str("DE-HB")>>,
    <<Str("hamburg"), Str("HH"), Str("DE-HH")>>,
    <<Str("hessen"), Str("HE"), Str("DE-HE")>>,
    <<Str("mecklenburg-vorpommern"), Str("MV"), Str("DE-MV")>>,
    <<Str("niedersachsen"), Str("NI"), Str("DE-NI")>>,
    <<Str("nordrhein-westfalen"), Str("NW"), Str("DE-NW")>>,
    <<Str("rheinland-pfalz"), Str("RP"), Str("DE-RP")>>,
    <<Str("saarland"), Str("SL"), Str("DE-SL")>>,
    <<Str("sachsen-anhalt"), Str("ST"), Str("DE-ST")>>,
    <<Str("sachsen"), Str("SN"), Str("DE-SN")>>,
    <<Str("schleswig-holstein"), Str("SH"), Str("DE-SH")>>,
    <<Str("th") \o <<U_UMLAUT>> \o Str("ringen"), Str("TH"), Str("DE-TH")>> >>

\* STATES = list(FEIERTAGE_CODES.keys())
STATES == [i \in 1..Len(StateTable) |-> StateTable[i][1]]

\* FEIERTAGE_CODES[state], SUBDIVISION_CODES[state]
FEIERTAGE_CODES(state) ==
    StateTable[CHOOSE i \in 1..Len(StateTable) : StateTable[i][1] = state][2]
SUBDIVISION_CODES(state) ==
    StateTable[CHOOSE i \in 1..Len(StateTable) : StateTable[i][1] = state][3]

\* The defaults of --feiertage_dir and --ferien_dir
FEIERTAGE_DIR == Str("Feiertage")
FERIEN_DIR == Str("Ferien")

----------------------------------------------------------------------------
(* str methods and sorted() *)

IsLower(c) == (c >= 97 /\ c <= 122) \/ (c >= 223 /\ c <= 255 /\ c # 247)
IsUpper(c) == (c >= 65 /\ c <= 90) \/ (c >= 192 /\ c <= 222 /\ c # 215)
IsCased(c) == IsLower(c) \/ IsUpper(c)
ToUpper(c) == IF IsLower(c) /\ c # 223 /\ c # 255 THEN c - 32 ELSE c
ToLower(c) == IF IsUpper(c) THEN c + 32 ELSE c

\* str.title(): a cased character is put in upper case after an uncased one
\* and at the start, in lower case after a cased one.
Title(text) ==
    [i \in 1..Len(text) |->
        IF i = 1 \/ ~IsCased(text[i - 1]) THEN ToUpper(text[i]) ELSE ToLower(text[i])]

\* a < b for two str, or two tuples of int: the first place where they
\* differ decides, and a proper prefix is the smaller.
SeqLess(a, b) ==
    \E k \in 1..Len(b) :
        /\ \A j \in 1..(k - 1) : j <= Len(a) /\ a[j] = b[j]
        /\ k > Len(a) \/ (k <= Len(a) /\ a[k] < b[k])

\* sorted(items, key=...): items is a sequence of records with a field key.
\* The sort is stable: of two items with equal keys the earlier stays first.
SortedByKey(items) ==
    LET place(i) ==
            1 + Cardinality({ j \in 1..Len(items) : SeqLess(items[j].key, items[i].key) })
              + Cardinality({ j \in 1..(i - 1) : items[j].key = items[i].key })
    IN  [p \in 1..Len(items) |-> items[CHOOSE i \in 1..Len(items) : place(i) = p]]

\* The items as they come, unsorted.
Unsorted(items) == items

----------------------------------------------------------------------------
(* The upstream services *)

\* feiertage-api.de: the JSON object returned for ?jahr=year&nur_land=code,
\* as the sequence of its (name, {"datum": ...}) members in their order.
\* The service holds a table of (name, month, day).
FeiertageService(w, request) ==
    [i \in 1..Len(w.holidays) |->
        [name |-> w.holidays[i].name,
         datum |-> StrftimeIso(Date(request.jahr, w.holidays[i].month,
                                    w.holidays[i].day))]]

\* openholidaysapi.org: the JSON array returned for a window validFrom ..
\* validTo: the records of the subdivision with a day in the window, each
\* {"name": [...], "startDate": ..., "endDate": ...}.
FerienService(w, request) ==
    SelectSeq(w.ferien,
        LAMBDA r : /\ DateLeq(FromIso(r.startDate), FromIso(request.validTo))
                   /\ DateLeq(FromIso(request.validFrom), FromIso(r.endDate)))

----------------------------------------------------------------------------
(* fetch_feiertage_api, fetch_ferien_api, german_name *)

\* The (date, name) tuples of a response, each with the key sorted() orders
\* tuples by: the date, then the name.
HolidayTuples(data) ==
    [i \in 1..Len(data) |->
        [day |-> FromIso(data[i].datum), name |-> data[i].name,
         key |-> <<ToOrdinal(FromIso(data[i].datum))>> \o data[i].name]]

\* fetch_feiertage_api without its sorted()
fetch_feiertage_api_unsorted(data) == Unsorted(HolidayTuples(data))

\* fetch_feiertage_api(land_code, year), from the decoded response on
fetch_feiertage_api(data) == SortedByKey(HolidayTuples(data))

\* min(current + timedelta(days=MAX_BATCH_DAYS), to_date): a window one day
\* too long
BatchEndLong(cur, to) ==
    LET far == AddDays(cur, MAX_BATCH_DAYS)
    IN  IF DateLeq(far, to) THEN far ELSE to

\* batch_end = min(current + timedelta(days=MAX_BATCH_DAYS - 1), to_date)
BatchEnd(cur, to) ==
    LET far == AddDays(cur, MAX_BATCH_DAYS - 1)
    IN  IF DateLeq(far, to) THEN far ELSE to

\* The key of the deduplication
ItemKey(item) == <<item.startDate, item.endDate>>

\* The loop keyed by the start date alone
RECURSIVE DedupByStart(_, _, _, _)
DedupByStart(items, i, seen, kept) ==
    IF i > Len(items) THEN kept
    ELSE IF items[i].startDate \notin seen
         THEN DedupByStart(items, i + 1, seen \cup {items[i].startDate},
                           Append(kept, items[i]))
         ELSE DedupByStart(items, i + 1, seen, kept)

\* The deduplication loop of fetch_ferien_api, from item i on
RECURSIVE DedupLoop(_, _, _, _)
DedupLoop(items, i, seen, kept) ==
    IF i > Len(items) THEN kept
    ELSE IF ItemKey(items[i]) \notin seen
         THEN DedupLoop(items, i + 1, seen \cup {ItemKey(items[i])},
                        Append(kept, items[i]))
         ELSE DedupLoop(items, i + 1, seen, kept)

\* The deduplication by the start date alone
DeduplicateByStart(items) == DedupByStart(items, 1, {}, <<>>)

Deduplicate(items) == DedupLoop(items, 1, {}, <<>>)

FERIEN == Str("Ferien")

german_name(name_list) ==
    IF \E i \in 1..Len(name_list) : name_list[i].language = "DE"
    THEN name_list[CHOOSE i \in 1..Len(name_list) :
                      /\ name_list[i].language = "DE"
                      /\ \A j \in 1..(i - 1) : name_list[j].language # "DE"].text
    ELSE IF Len(name_list) > 0 THEN name_list[1].text
    ELSE FERIEN

----------------------------------------------------------------------------
(* write_feiertage and write_ferien *)

BEGIN_VCALENDAR == Str("BEGIN:VCALENDAR")
VERSION_2_0 == Str("VERSION:2.0")
PRODID_ == Str("PRODID:")
NAME_ == Str("NAME:")
X_WR_CALNAME_ == Str("X-WR-CALNAME:")
METHOD_PUBLISH == Str("METHOD:PUBLISH")
END_VCALENDAR == Str("END:VCALENDAR")
FEIERTAGE_SUFFIX == Str(" Feiertage")
FERIEN_SUFFIX == Str(" Ferien")
ICS_SUFFIX == Str(".ics")
SLASH == Str("/")

\* parts and content with the trailing line break left out
CalendarTextNoTrailer(event_calls, cal_name, ts) ==
    LET events == [i \in 1..Len(event_calls) |->
                      vevent(event_calls[i].summary, event_calls[i].dtstart,
                             event_calls[i].dtend, ts)]
        parts == <<BEGIN_VCALENDAR, VERSION_2_0, PRODID_ \o PRODID>>
                    \o events
                    \o <<NAME_ \o cal_name, X_WR_CALNAME_ \o cal_name,
                         METHOD_PUBLISH, END_VCALENDAR>>
    IN  Join(parts, CRLF)

\* parts and content of write_feiertage and write_ferien: the text of the
\* calendar with the events of the given calls of vevent
CalendarText(event_calls, cal_name, ts) ==
    LET events == [i \in 1..Len(event_calls) |->
                      vevent(event_calls[i].summary, event_calls[i].dtstart,
                             event_calls[i].dtend, ts)]
        parts == <<BEGIN_VCALENDAR, VERSION_2_0, PRODID_ \o PRODID>>
                    \o events
                    \o <<NAME_ \o cal_name, X_WR_CALNAME_ \o cal_name,
                         METHOD_PUBLISH, END_VCALENDAR>>
    IN  Join(parts, CRLF) \o CRLF

\* os.path.join(output_dir, f"{state}.ics")
OutPath(output_dir, state) == output_dir \o SLASH \o state \o ICS_SUFFIX

\* The requests of write_feiertage: one for each year of range(year_start,
\* year_end + 1)
FeiertageRequests(state, ys, ye) ==
    [k \in 1..(ye - ys + 1) |->
        [jahr |-> ys + k - 1, nur_land |-> FEIERTAGE_CODES(state)]]

\* The calls of vevent write_feiertage makes for the responses, in order:
\* for each year, for each (day, name) of fetch_feiertage_api
FeiertageCalls(responses) ==
    Concat([k \in 1..Len(responses) |->
        LET holidays == fetch_feiertage_api(responses[k])
        IN  [i \in 1..Len(holidays) |->
                [summary |-> holidays[i].name,
                 dtstart |-> holidays[i].day,
                 dtend |-> AddDays(holidays[i].day, 1)]]])

\* The calls of vevent with the end date taken as the API gives it
FerienCallsInclusiveEnd(state, holidays) ==
    LET ordered == SortedByKey([i \in 1..Len(holidays) |->
                       [key |-> holidays[i].startDate, h |-> holidays[i]]])
    IN  [i \in 1..Len(ordered) |->
            LET h == ordered[i].h
                start == FromIso(h.startDate)
            IN  [summary |-> german_name(h.name) \o <<SP>> \o Digits(start.year, 4)
                                \o <<SP>> \o Title(state),
                 dtstart |-> start,
                 dtend |-> FromIso(h.endDate)]]

\* The calls of vevent write_ferien makes for the holidays fetched: for each
\* h of sorted(holidays, key=startDate)
FerienCalls(state, holidays) ==
    LET ordered == SortedByKey([i \in 1..Len(holidays) |->
                       [key |-> holidays[i].startDate, h |-> holidays[i]]])
    IN  [i \in 1..Len(ordered) |->
            LET h == ordered[i].h
                start == FromIso(h.startDate)
            IN  [summary |-> german_name(h.name) \o <<SP>> \o Digits(start.year, 4)
                                \o <<SP>> \o Title(state),
                 dtstart |-> start,
                 dtend |-> AddDays(FromIso(h.endDate), 1)]]

----------------------------------------------------------------------------
(* SpecFold: ics_fold applied to one line *)

MaxLineLen == 226
MaxPrefix == 78
MaxGap == 1
MaxTail == 1

\* One character of each encoded width above one octet
WideChars == {252, 8364, 128512}

\* A wide character, or none
OptionalWide == { <<w>> : w \in WideChars } \cup { <<>> }

\* n single-byte characters: letters, with a blank as every seventh one.
Pad(n, shift) ==
    [i \in 1..n |-> IF (i + shift) % 7 = 0 THEN SP ELSE 97 + ((i + shift) % 26)]

\* The distances between two wide characters: next to each other, and one
\* continuation chunk apart, so that both can lie on a fold boundary.
Gaps == (0..MaxGap) \cup ((CONTINUATION_LIMIT - 6)..CONTINUATION_LIMIT)

\* The lines folded: single-byte text of every length, and single-byte
\* text with up to two wide characters in it.
FoldInputs ==
    { Pad(n, 0) : n \in 0..MaxLineLen }
    \cup { Pad(n1, 0) \o <<w1>> \o Pad(n2, n1) \o w2 \o Pad(n3, n1 + n2) :
             n1 \in 0..MaxPrefix, n2 \in Gaps, n3 \in 0..MaxTail,
             w1 \in WideChars, w2 \in OptionalWide }

InitFold ==
    /\ pc = "fold_call"
    /\ line \in FoldInputs
    /\ folded = <<>>
    /\ EventIdle /\ FetchIdle /\ MainIdle /\ WorldIdle

FoldLine ==
    /\ pc = "fold_call"
    /\ folded' = ics_fold(line)
    /\ pc' = "fold_done"
    /\ UNCHANGED <<line, eventVars, fetchVars, mainVars, world, broken>>

NextFold == FoldLine

SpecFold == InitFold /\ [][NextFold]_vars

----------------------------------------------------------------------------
(* Properties of ics_fold *)

IsSingleByte(text) == \A i \in 1..Len(text) : text[i] < 128

\* The octet offset at which character i of text starts in its encoding.
OffsetOf(text, i) == ByteLen(SubSeq(text, 1, i - 1))

\* The octet offsets at which a line of n octets is cut: 75, 149, 223, ...
FoldBoundaries(n) ==
    { b \in 1..(n - 1) :
        b >= FIRST_LIMIT /\ (b - FIRST_LIMIT) % CONTINUATION_LIMIT = 0 }

\* Character i of text has octets on both sides of a fold boundary.
Straddles(text, i) ==
    /\ text[i] >= 128
    /\ LET n == ByteLen(text)
           from == OffsetOf(text, i)
           to == from + Len(EncodeChar(text[i]))
       IN  n > FOLD_THRESHOLD /\ \E b \in FoldBoundaries(n) : from < b /\ b < to

\* text without the characters that straddle a fold boundary.
WithoutStraddlers(text) ==
    Concat([i \in 1..Len(text) |-> IF Straddles(text, i) THEN <<>> ELSE <<text[i]>>])

\* The folded line with its fold separators taken out.
Unfolded == Concat(Split(folded, FoldSeparator))

\* The number of chunks a line of n > 75 octets is cut into.
ChunkCount(n) ==
    1 + ((n - FIRST_LIMIT) + CONTINUATION_LIMIT - 1) \div CONTINUATION_LIMIT

\* C1: ics_fold returns a line of at most 75 octets unchanged; a longer line
\* of single-byte characters comes back as its leading 75 octets followed by
\* chunks of 74 octets, the last possibly shorter, joined by CRLF and one
\* space, so that 76 octets give two segments, the first of 75 octets, and
\* no physical line of the output, its leading space counted, exceeds 75.
C1_FoldChunking ==
    pc = "fold_done" =>
        LET n == ByteLen(line)
            segs == Split(folded, FoldSeparator)
            physical == Split(folded, CRLF)
        IN  /\ n <= 75 => folded = line
            /\ (n > 75 /\ IsSingleByte(line)) =>
                /\ Len(segs) = ChunkCount(n)
                /\ n = 76 => Len(segs) = 2
                /\ Len(segs[1]) = 75
                /\ \A k \in 2..(Len(segs) - 1) : Len(segs[k]) = 74
                /\ Len(segs[Len(segs)]) >= 1 /\ Len(segs[Len(segs)]) <= 74
                /\ Concat(segs) = line
                /\ \A k \in 2..Len(physical) : physical[k][1] = SP
                /\ \A k \in 1..Len(physical) : ByteLen(physical[k]) <= 75

\* A single-byte line of 224 octets has been folded into four physical lines.
C1_Witness ==
    /\ pc = "fold_done"
    /\ IsSingleByte(line)
    /\ ByteLen(line) = 224
    /\ Len(Split(folded, CRLF)) = 4

\* C8: a character with octets on both sides of a fold boundary (octet
\* offset 75, 149, 223, ...) is dropped whole, every other character is kept
\* in its order, the output holds no character the line does not hold, and so
\* taking the fold separators out of the output gives the line back exactly
\* when no character straddles a boundary.
C8_StraddlerDropped ==
    pc = "fold_done" =>
        /\ Unfolded = WithoutStraddlers(line)
        /\ (Unfolded = line) <=> ~ \E i \in 1..Len(line) : Straddles(line, i)
        /\ Chars(folded) \subseteq Chars(line) \cup {CR, LF, SP}

\* A line has been folded in which one character straddles the boundary at
\* octet 75 and another the boundary at octet 149, and both are gone.
C8_Witness ==
    /\ pc = "fold_done"
    /\ Cardinality({ i \in 1..Len(line) : Straddles(line, i) }) = 2
    /\ Len(Unfolded) = Len(line) - 2

----------------------------------------------------------------------------
(* SpecEvent: vevent called again and again for one summary and start date, *)
(* as one generation run after another does                                *)

MaxRenders == 2

\* n single-byte characters: letters, with a blank as every seventh one.
Letters(n) == [i \in 1..n |-> IF i % 7 = 0 THEN SP ELSE 97 + (i % 26)]

\* The summaries rendered: holiday names, one with an umlaut, and summaries
\* that with "SUMMARY:" before them make 75 and 76 octets.
EventSummaries ==
    { Str("Neujahr"),
      Str("Tag der Arbeit"),
      Str("Fr") \o <<252>> \o Str("hjahrsferien 2024 Th") \o <<252>> \o Str("ringen"),
      Letters(67),
      Letters(68),
      Letters(65) \o <<252>>,
      Letters(66) \o <<252>> }

EventStarts == { Date(2024, 1, 1), Date(2024, 2, 29), Date(2025, 12, 31) }

\* The number of days from the start date to the end date
EventLengths == {1, 14}

\* datetime.now(timezone.utc).strftime("%Y%m%dT%H%M%SZ") of two runs
Timestamps == { Str("20260101T000000Z"), Str("20261231T235959Z") }

InitEvent ==
    /\ pc = "event"
    /\ ev_args \in [summary : EventSummaries, dtstart : EventStarts]
    /\ renders = <<>>
    /\ FoldIdle /\ FetchIdle /\ MainIdle /\ WorldIdle

RenderEvent ==
    /\ pc = "event"
    /\ Len(renders) < MaxRenders
    /\ \E days \in EventLengths, ts \in Timestamps :
          LET end == AddDays(ev_args.dtstart, days)
          IN  renders' = Append(renders,
                  [dtend |-> end, timestamp |-> ts,
                   block |-> vevent(ev_args.summary, ev_args.dtstart, end, ts)])
    /\ UNCHANGED <<pc, ev_args, foldVars, fetchVars, mainVars, world, broken>>

NextEvent == RenderEvent

SpecEvent == InitEvent /\ [][NextEvent]_vars

----------------------------------------------------------------------------
(* Properties of vevent *)

\* The physical lines of a text: what lies between its line breaks.
PhysicalLines(text) == Split(text, CRLF)

StartsWith(text, prefix) ==
    Len(text) >= Len(prefix) /\ SubSeq(text, 1, Len(prefix)) = prefix

\* The lines of an event block that start with the given field name.
FieldLines(block, name) ==
    SelectSeq(PhysicalLines(block), LAMBDA l : StartsWith(l, name))

\* C4: the stable id of a rendered event depends on the summary and the
\* start date alone: every rendering of one (summary, start date), whatever
\* the end date and the timestamp of the run, carries the same UID line,
\* which holds make_uid's 8 hexadecimal digits.
C4_UidStable ==
    \A i, j \in 1..Len(renders) :
        LET uid_i == FieldLines(renders[i].block, UID_)
            uid_j == FieldLines(renders[j].block, UID_)
        IN  /\ Len(uid_i) = 1
            /\ uid_i = uid_j
            /\ Len(uid_i[1]) = 4 + 8
            /\ Chars(SubSeq(uid_i[1], 5, 12)) \subseteq Chars(HexDigits)
            /\ SubSeq(uid_i[1], 5, 12) = make_uid(ev_args.summary, ev_args.dtstart)

\* One event has been rendered in two runs that differ in the timestamp and
\* in the end date.
C4_Witness ==
    /\ Len(renders) = 2
    /\ renders[1].timestamp # renders[2].timestamp
    /\ renders[1].dtend # renders[2].dtend
    /\ renders[1].block # renders[2].block

\* C10: every physical line of an event block rendered by vevent is at most
\* 75 octets long, for a summary of any length.
C10_LinesWithinLimit ==
    \A i \in 1..Len(renders) :
        \A k \in 1..Len(PhysicalLines(renders[i].block)) :
            ByteLen(PhysicalLines(renders[i].block)[k]) <= 75

----------------------------------------------------------------------------
(* What the upstream services hold *)

Holiday(n, m, d) == [name |-> n, month |-> m, day |-> d]
Vacation(names, start, end) == [name |-> names, startDate |-> start, endDate |-> end]
LocalName(lang, t) == [language |-> lang, text |-> t]

NEUJAHR == Str("Neujahr")
TAG_DER_ARBEIT == Str("Tag der Arbeit")
MAIFEIERTAG == Str("Maifeiertag")
TAG_DER_EINHEIT == Str("Tag der Deutschen Einheit")
WINTERFERIEN == Str("Winterferien")
BRUECKENTAG == Str("Br") \o <<U_UMLAUT>> \o Str("ckentag")
HERBSTFERIEN == Str("Herbstferien")
SOMMERFERIEN == Str("Sommerferien")

\* The holiday tables: in the order of the calendar; out of it; and with
\* two names on one day, the later in the alphabet first.
HolidaysInOrder == << Holiday(NEUJAHR, 1, 1), Holiday(TAG_DER_ARBEIT, 5, 1) >>
HolidaysOutOfOrder == << Holiday(TAG_DER_EINHEIT, 10, 3), Holiday(NEUJAHR, 1, 1) >>
HolidaysOnOneDay == << Holiday(TAG_DER_ARBEIT, 5, 1), Holiday(MAIFEIERTAG, 5, 1) >>

\* The vacation records: a week and a single day; records out of order, one
\* of them across the end of the first window of a fetch from January 2024,
\* one without a German name; and two records with the same dates, the
\* second without any name, a third that starts on the same day, and a
\* record whose endDate lies before its startDate.
VacationsPlain == <<
    Vacation(<<LocalName("DE", WINTERFERIEN), LocalName("EN", Str("Winter holidays"))>>,
             Str("2024-02-05"), Str("2024-02-10")),
    Vacation(<<LocalName("DE", BRUECKENTAG)>>, Str("2024-05-10"), Str("2024-05-10")) >>
VacationsAcrossWindows == <<
    Vacation(<<LocalName("EN", Str("Autumn holidays")), LocalName("DE", HERBSTFERIEN)>>,
             Str("2026-09-20"), Str("2026-10-02")),
    Vacation(<<LocalName("EN", Str("Easter holidays"))>>,
             Str("2024-03-25"), Str("2024-04-05")) >>
VacationsTwiceAndInverted == <<
    Vacation(<<LocalName("DE", SOMMERFERIEN)>>, Str("2025-07-01"), Str("2025-08-10")),
    Vacation(<<>>, Str("2025-07-01"), Str("2025-08-10")),
    Vacation(<<LocalName("DE", Str("Ferientag"))>>, Str("2025-07-01"), Str("2025-07-01")),
    Vacation(<<>>, Str("2024-03-10"), Str("2024-03-05")) >>

Worlds == {
    [holidays |-> HolidaysInOrder, ferien |-> VacationsPlain],
    [holidays |-> HolidaysOutOfOrder, ferien |-> VacationsAcrossWindows],
    [holidays |-> HolidaysOnOneDay, ferien |-> VacationsTwiceAndInverted] }

----------------------------------------------------------------------------
(* Spec: one run of main *)

MaxYears == 3

\* The values of --year_start and --year_end
ArgYears == 2024..(2023 + MaxYears)

Init ==
    /\ pc = "main"
    /\ world \in Worlds
    /\ broken = NoFailure
    /\ year_start \in ArgYears
    /\ year_end \in ArgYears
    /\ timestamp = <<>>
    /\ idx = 0
    /\ source = NoSource
    /\ calls = <<>> /\ out_path = <<>> /\ content = <<>> /\ files = {}
    /\ FoldIdle /\ EventIdle /\ FetchIdle

\* main, up to its first loop: parser.error ends the process.
ParseArgs ==
    /\ pc = "main"
    /\ IF year_start > year_end
       THEN pc' = "usage_error" /\ UNCHANGED <<timestamp, idx>>
       ELSE /\ timestamp' \in Timestamps
            /\ idx' = 1
            /\ pc' = "feiertage"
    /\ UNCHANGED <<year_start, year_end, docVars, foldVars, eventVars, fetchVars,
                   world, broken>>

\* The place in the run after the state at idx is done
AfterState(i, again, then) ==
    IF i < Len(STATES) THEN <<again, i + 1>> ELSE <<then, 1>>

\* write_feiertage(STATES[idx], ...), every request of which is answered
WriteFeiertage ==
    /\ pc = "feiertage"
    /\ LET state == STATES[idx]
           reqs == FeiertageRequests(state, year_start, year_end)
           responses == [k \in 1..Len(reqs) |-> FeiertageService(world, reqs[k])]
           event_calls == FeiertageCalls(responses)
           path == OutPath(FEIERTAGE_DIR, state)
       IN  /\ requests' = reqs
           /\ fetched' = responses
           /\ source' = [requests |-> reqs, fetched |-> responses]
           /\ calls' = event_calls
           /\ content' = CalendarText(event_calls, Title(state) \o FEIERTAGE_SUFFIX,
                                      timestamp)
           /\ out_path' = path
           /\ files' = files \cup {path}
    /\ pc' = AfterState(idx, "feiertage", "ferien")[1]
    /\ idx' = AfterState(idx, "feiertage", "ferien")[2]
    /\ UNCHANGED <<argVars, foldVars, eventVars, world, broken,
                   from_date, to_date, current, results, unique>>

\* write_feiertage(STATES[idx], ...), one request of which fails: urlopen
\* raises, nothing catches it, and the process ends with the traceback.
WriteFeiertageRaises ==
    /\ pc = "feiertage"
    /\ LET reqs == FeiertageRequests(STATES[idx], year_start, year_end)
       IN  \E k \in 1..Len(reqs) :
              /\ requests' = SubSeq(reqs, 1, k)
              /\ fetched' = [j \in 1..(k - 1) |-> FeiertageService(world, reqs[j])]
    /\ broken' = <<"feiertage", idx>>
    /\ pc' = "crashed"
    /\ UNCHANGED <<mainVars, foldVars, eventVars, world,
                   from_date, to_date, current, results, unique>>

\* write_ferien(STATES[idx], ...), up to the loop of fetch_ferien_api
WriteFerienBegin ==
    /\ pc = "ferien"
    /\ from_date' = Date(year_start, 1, 1)
    /\ to_date' = Date(year_end, 12, 31)
    /\ current' = Date(year_start, 1, 1)
    /\ results' = <<>>
    /\ unique' = <<>>
    /\ requests' = <<>>
    /\ fetched' = <<>>
    /\ pc' = "ferien_fetch"
    /\ UNCHANGED <<mainVars, foldVars, eventVars, world, broken>>

\* Whether fetch_ferien_api is in its loop: called by write_ferien, or alone.
InFetchLoop == pc \in {"ferien_fetch", "fetch"}

\* One turn of the while loop of fetch_ferien_api
FetchBatch ==
    /\ InFetchLoop
    /\ DateLeq(current, to_date)
    /\ \E batch_end \in {BatchEnd(current, to_date)} :
       \E request \in {[subdivisionCode |-> SUBDIVISION_CODES(STATES[idx]),
                        validFrom |-> StrftimeIso(current),
                        validTo |-> StrftimeIso(batch_end)]} :
       \E response \in {FerienService(world, request)} :
          /\ requests' = Append(requests, request)
          /\ fetched' = Append(fetched, response)
          /\ results' = results \o response
          /\ current' = AddDays(batch_end, 1)
    /\ UNCHANGED <<pc, from_date, to_date, unique, mainVars, foldVars, eventVars,
                   world, broken>>

\* One turn of the loop of fetch_ferien_api called by write_ferien, in which
\* the request fails: urlopen raises, and the process ends.
FetchRaises ==
    /\ pc = "ferien_fetch"
    /\ DateLeq(current, to_date)
    /\ requests' = Append(requests,
            [subdivisionCode |-> SUBDIVISION_CODES(STATES[idx]),
             validFrom |-> StrftimeIso(current),
             validTo |-> StrftimeIso(BatchEnd(current, to_date))])
    /\ broken' = <<"ferien", idx>>
    /\ pc' = "crashed"
    /\ UNCHANGED <<from_date, to_date, current, results, unique, fetched, mainVars,
                   foldVars, eventVars, world>>

\* fetch_ferien_api called alone: after the loop, the deduplication and the
\* return
FetchReturn ==
    /\ pc = "fetch"
    /\ ~DateLeq(current, to_date)
    /\ unique' = Deduplicate(results)
    /\ pc' = "fetch_done"
    /\ UNCHANGED <<from_date, to_date, current, results, requests, fetched, mainVars,
                   foldVars, eventVars, world, broken>>

\* write_ferien(STATES[idx], ...), from the end of the loop of
\* fetch_ferien_api on
WriteFerienFinish ==
    /\ pc = "ferien_fetch"
    /\ ~DateLeq(current, to_date)
    /\ LET state == STATES[idx]
           holidays == Deduplicate(results)
           event_calls == FerienCalls(state, holidays)
           path == OutPath(FERIEN_DIR, state)
       IN  /\ unique' = holidays
           /\ source' = [requests |-> requests, fetched |-> fetched]
           /\ calls' = event_calls
           /\ content' = CalendarText(event_calls, Title(state) \o FERIEN_SUFFIX,
                                      timestamp)
           /\ out_path' = path
           /\ files' = files \cup {path}
    /\ pc' = AfterState(idx, "ferien", "done")[1]
    /\ idx' = AfterState(idx, "ferien", "done")[2]
    /\ UNCHANGED <<argVars, foldVars, eventVars, world, broken,
                   from_date, to_date, current, results, requests, fetched>>

Next ==
    \/ ParseArgs
    \/ WriteFeiertage
    \/ WriteFeiertageRaises
    \/ WriteFerienBegin
    \/ FetchBatch
    \/ FetchRaises
    \/ WriteFerienFinish

Spec == Init /\ [][Next]_vars

----------------------------------------------------------------------------
(* SpecFetch: fetch_ferien_api called with any two dates *)

\* The ranges asked for hold about 0 .. MaxBatches full batches of days: a
\* whole number of batches, give or take up to MaxSlack days, so that they
\* lie on both sides of every boundary the loop has; those of less than one
\* day have to_date before from_date.
MaxBatches == 2

MaxSlack == 3

FetchSpans ==
    { k * MAX_BATCH_DAYS + d : k \in 0..MaxBatches, d \in (0 - MaxSlack)..MaxSlack }

FetchStarts == { Date(2024, 1, 1), Date(2024, 1, 3) }

InitFetch ==
    /\ pc = "fetch"
    /\ world \in Worlds
    /\ broken = NoFailure
    /\ idx = 1
    /\ from_date \in FetchStarts
    /\ \E span \in FetchSpans : to_date = AddDays(from_date, span - 1)
    /\ current = from_date
    /\ results = <<>> /\ unique = <<>> /\ requests = <<>> /\ fetched = <<>>
    /\ year_start = 0 /\ year_end = 0 /\ timestamp = <<>>
    /\ source = NoSource
    /\ calls = <<>> /\ out_path = <<>> /\ content = <<>> /\ files = {}
    /\ FoldIdle /\ EventIdle

NextFetch == FetchBatch \/ FetchReturn

\* The loop runs on for as long as it can: the function is sequential code.
SpecFetch == InitFetch /\ [][NextFetch]_vars /\ WF_vars(NextFetch)

----------------------------------------------------------------------------
(* Properties of the documents written *)

\* The physical lines of the last document: its text split at its line
\* breaks. The piece after the last line break is the last element.
DocLines == Split(content, CRLF)

\* The number of event blocks among the lines of a document, between the 3
\* lines of the header and the 4 of the footer, a block being 11 lines.
EventCount(lines) == (Len(lines) - 8) \div 11

\* Line k of event block i
BlockLine(lines, i, k) == lines[3 + 11 * (i - 1) + k]

\* What follows the field name in a line
FieldValue(l, name) == SubSeq(l, Len(name) + 1, Len(l))

\* The date a YYYYMMDD value names
ParseBasic(text) ==
    Date(Number(SubSeq(text, 1, 4)), Number(SubSeq(text, 5, 6)),
         Number(SubSeq(text, 7, 8)))

\* The events of a document: the start date, the end date and the summary
\* each of its blocks gives.
DocEventsOf(lines) ==
    [i \in 1..EventCount(lines) |->
        [start |-> ParseBasic(FieldValue(BlockLine(lines, i, 2), DTSTART_)),
         end |-> ParseBasic(FieldValue(BlockLine(lines, i, 3), DTEND_)),
         summary |-> FieldValue(BlockLine(lines, i, 4), SUMMARY_)]]

\* Which document was written last
LastIsFeiertage == content # <<>> /\ StartsWith(out_path, FEIERTAGE_DIR \o SLASH)
LastIsFerien == content # <<>> /\ StartsWith(out_path, FERIEN_DIR \o SLASH)
LastState ==
    CHOOSE i \in 1..Len(STATES) :
        out_path \in {OutPath(FEIERTAGE_DIR, STATES[i]), OutPath(FERIEN_DIR, STATES[i])}

\* The records of all the responses to the requests sent, in order
AllFetched == Concat(fetched)

\* The records of all the responses the last document was made from
DocFetched == Concat(source.fetched)

IsOrdered(r) == DateLeq(FromIso(r.startDate), FromIso(r.endDate))

\* An event of the document renders the vacation record r.
RendersRecord(e, r) ==
    /\ e.start = FromIso(r.startDate)
    /\ e.end = AddDays(FromIso(r.endDate), 1)
    /\ IsOrdered(r) => DateLess(e.start, e.end)

DocCalName ==
    Title(STATES[LastState])
        \o (IF LastIsFeiertage THEN FEIERTAGE_SUFFIX ELSE FERIEN_SUFFIX)

\* C3: a document is the fixed header, then one event block for each call of
\* vevent, in the order of the calls, then the fixed footer with the name of
\* the calendar twice, all joined by CRLF with one CRLF at the end; a block
\* is BEGIN:VEVENT, the fields DTSTART, DTEND, SUMMARY, UID, URL, CREATED,
\* LAST-MODIFIED, DTSTAMP, TRANSP in this order, END:VEVENT, and the three
\* timestamp fields of every block hold the timestamp of the run.
C3_DocumentShape ==
    content # <<>> =>
        LET lines == DocLines
            n == Len(calls)
            last == Len(lines)
            cal_name == DocCalName
        IN  /\ last = 3 + 11 * n + 4 + 1
            /\ lines[last] = <<>>
            /\ \A k \in 1..(last - 1) : lines[k] # <<>>
            /\ lines[1] = BEGIN_VCALENDAR
            /\ lines[2] = VERSION_2_0
            /\ lines[3] = PRODID_ \o PRODID
            /\ lines[last - 4] = NAME_ \o cal_name
            /\ lines[last - 3] = X_WR_CALNAME_ \o cal_name
            /\ lines[last - 2] = METHOD_PUBLISH
            /\ lines[last - 1] = END_VCALENDAR
            /\ Cardinality({ k \in 1..last : lines[k] = BEGIN_VEVENT }) = n
            /\ Cardinality({ k \in 1..last : lines[k] = END_VEVENT }) = n
            /\ \A i \in 1..n :
                  /\ BlockLine(lines, i, 1) = BEGIN_VEVENT
                  /\ BlockLine(lines, i, 2) = DTSTART_ \o StrftimeBasic(calls[i].dtstart)
                  /\ BlockLine(lines, i, 3) = DTEND_ \o StrftimeBasic(calls[i].dtend)
                  /\ BlockLine(lines, i, 4) = SUMMARY_ \o calls[i].summary
                  /\ StartsWith(BlockLine(lines, i, 5), UID_)
                  /\ BlockLine(lines, i, 6) = URL_ \o URL
                  /\ BlockLine(lines, i, 7) = CREATED_ \o timestamp
                  /\ BlockLine(lines, i, 8) = LAST_MODIFIED_ \o timestamp
                  /\ BlockLine(lines, i, 9) = DTSTAMP_ \o timestamp
                  /\ BlockLine(lines, i, 10) = TRANSP_TRANSPARENT
                  /\ BlockLine(lines, i, 11) = END_VEVENT

\* A document with four events, not all alike, has been written.
C3_Witness ==
    /\ content # <<>>
    /\ Len(calls) = 4
    /\ EventCount(DocLines) = 4
    /\ calls[1] # calls[2]

\* C5: a failure for one state does not keep the others from completing:
\* when the run has ended, every state but the one whose request failed has
\* its Feiertage document and its Ferien document.
C5_OtherStatesComplete ==
    pc \in {"done", "crashed"} =>
        \A i \in 1..Len(STATES) :
            /\ broken # <<"feiertage", i>> => OutPath(FEIERTAGE_DIR, STATES[i]) \in files
            /\ broken # <<"ferien", i>> => OutPath(FERIEN_DIR, STATES[i]) \in files

\* The first event block of the year at place k of the requests; the blocks
\* of year k end before the first block of year k + 1.
FirstBlockOfYear(k) ==
    1 + Len(Concat(SubSeq(source.fetched, 1, k - 1)))

\* C7: the holidays of one (state, year) are put in ascending order of their
\* dates whatever the order of the response, and a Feiertage document holds
\* them year by year in that order, the years ascending from year_start to
\* year_end inclusive.
C7_HolidaysSorted ==
    LastIsFeiertage =>
        LET events == DocEventsOf(DocLines)
        IN  /\ Len(source.requests) = year_end - year_start + 1
            /\ \A k \in 1..Len(source.requests) : source.requests[k].jahr = year_start + k - 1
            /\ Len(events) = Len(DocFetched)
            /\ \A k \in 1..Len(source.fetched) :
                  LET first == FirstBlockOfYear(k)
                      last == first + Len(source.fetched[k]) - 1
                  IN  /\ \A i \in first..(last - 1) :
                            DateLeq(events[i].start, events[i + 1].start)
                      /\ { <<events[i].start, events[i].summary>> : i \in first..last }
                            = { <<FromIso(source.fetched[k][j].datum), source.fetched[k][j].name>> :
                                  j \in 1..Len(source.fetched[k]) }

\* A Feiertage document for two years and more has been written from
\* responses that list a later holiday before an earlier one.
C7_Witness ==
    /\ LastIsFeiertage
    /\ Len(source.fetched) >= 2
    /\ DateLess(FromIso(source.fetched[1][2].datum), FromIso(source.fetched[1][1].datum))
    /\ LET events == DocEventsOf(DocLines)
       IN  DateLess(events[1].start, events[2].start)

----------------------------------------------------------------------------
(* Properties of fetch_ferien_api *)

\* The first place of a record with the key of item in the records fetched
FirstFetched(item) ==
    CHOOSE i \in 1..Len(AllFetched) :
        /\ ItemKey(AllFetched[i]) = ItemKey(item)
        /\ \A j \in 1..(i - 1) : ItemKey(AllFetched[j]) # ItemKey(item)

\* C6: the list returned holds no two records with the same (startDate,
\* endDate); every key fetched in any window is in it once, with the first
\* record fetched with that key, and the records kept are in the order in
\* which they were fetched.
C6_Deduplicated ==
    pc = "fetch_done" =>
        /\ \A i, j \in 1..Len(unique) :
              i # j => ItemKey(unique[i]) # ItemKey(unique[j])
        /\ { ItemKey(unique[i]) : i \in 1..Len(unique) }
              = { ItemKey(AllFetched[i]) : i \in 1..Len(AllFetched) }
        /\ \A i \in 1..Len(unique) : unique[i] = AllFetched[FirstFetched(unique[i])]
        /\ \A i \in 1..(Len(unique) - 1) :
              FirstFetched(unique[i]) < FirstFetched(unique[i + 1])

\* Two windows have been fetched, a record came with both and was returned
\* once, and two records that start on the same day were both returned.
C6_Witness ==
    /\ pc = "fetch_done"
    /\ Len(fetched) >= 2
    /\ Len(unique) < Len(AllFetched)
    /\ \/ \E i \in 1..Len(fetched[1]) : \E j \in 1..Len(fetched[2]) :
              fetched[1][i] = fetched[2][j]
       \/ \E i, j \in 1..Len(unique) :
              /\ unique[i].startDate = unique[j].startDate
              /\ unique[i].endDate # unique[j].endDate

\* The first and the last day of the window of request k, as ordinals
WindowFrom(k) == ToOrdinal(FromIso(requests[k].validFrom))
WindowTo(k) == ToOrdinal(FromIso(requests[k].validTo))

\* The windows requested so far start at from_date, follow one another
\* without gap or overlap, span at most MAX_BATCH_DAYS days each and stay
\* within to_date; after the loop they end at to_date, so that every day of
\* from_date .. to_date is in exactly one of them, and there is none when
\* from_date is after to_date.
WindowsTile ==
    InFetchLoop \/ pc = "fetch_done" =>
        /\ Len(requests) >= 1 => WindowFrom(1) = ToOrdinal(from_date)
        /\ \A k \in 1..Len(requests) :
              /\ WindowFrom(k) <= WindowTo(k)
              /\ WindowTo(k) - WindowFrom(k) + 1 <= MAX_BATCH_DAYS
              /\ WindowTo(k) <= ToOrdinal(to_date)
              /\ k > 1 => WindowFrom(k) = WindowTo(k - 1) + 1
        /\ pc = "fetch_done" =>
              /\ DateLeq(from_date, to_date) =>
                    /\ Len(requests) >= 1
                    /\ WindowTo(Len(requests)) = ToOrdinal(to_date)
              /\ ~DateLeq(from_date, to_date) => requests = <<>>
              /\ LET lo == [k \in 1..Len(requests) |-> WindowFrom(k)]
                     hi == [k \in 1..Len(requests) |-> WindowTo(k)]
                 IN  \A d \in ToOrdinal(from_date)..ToOrdinal(to_date) :
                        Cardinality({ k \in 1..Len(requests) :
                                        lo[k] <= d /\ d <= hi[k] }) = 1

\* C9: the request loop of fetch_ferien_api ends, for every from_date and
\* to_date, and its windows tile from_date .. to_date as WindowsTile says.
C9_WindowsTileAndLoopEnds == []WindowsTile /\ <>(pc = "fetch_done")

\* A fetch has ended after three windows, the first two of 1000 days.
C9_Witness ==
    /\ pc = "fetch_done"
    /\ Len(requests) = 3
    /\ WindowTo(1) - WindowFrom(1) + 1 = 1000
    /\ WindowTo(2) - WindowFrom(2) + 1 = 1000
    /\ WindowTo(3) = ToOrdinal(to_date)

====
